---- MODULE Spec2Model ----
(***************************************************************************)
(* Model of src/app.py (Monitor Macro USA): the Streamlit script that      *)
(* checks the FRED credential, loads the catalog series through a          *)
(* TTL-memoized cargar_datos_fred, derives year-over-year columns and      *)
(* renders the key-indicator metrics.                                      *)
(*                                                                         *)
(* Numbers are exact rationals [n, d]: d > 0 is the finite value n/d in    *)
(* lowest terms, d = 0 is a float special: n = 0 is NaN (a missing         *)
(* value), n = 1 is +inf and n = -1 is -inf.  Float rounding is not        *)
(* modelled.                                                               *)
(***************************************************************************)
EXTENDS Integers, Sequences, FiniteSets, TLC

VARIABLES
    secrets_key,    \* 'FRED_API_KEY' in st.secrets
    fill_pad,       \* the installed pandas pads missing values in pct_change
    pc,             \* position of the script run
    now,            \* clock of the process, in seconds
    cache,          \* entries of st.cache_data for cargar_datos_fred
    fecha_inicio,   \* the start date selected in the sidebar
    datos,          \* the dict the body of cargar_datos_fred filled in this run
    df,             \* the table returned by cargar_datos_fred
    df_metrics,     \* the keys c for which a column c_YoY was added, with it
    llamadas,       \* series ids passed to _fred.get_series in this run
    avisos,         \* series ids of the st.sidebar.warning calls of this run
    metricas,       \* the st.metric values and deltas shown in this run
    escenario,      \* what the provider answered in the last fresh load
    ciclos,         \* per start date, the last completed fresh load
    llamada         \* how the last call of cargar_datos_fred was served

vars == <<secrets_key, fill_pad, pc, now, cache, fecha_inicio, datos, df,
          df_metrics, llamadas, avisos, metricas, escenario, ciclos, llamada>>

----------------------------------------------------------------------------
(* Numbers *)

NaN == [n |-> 0, d |-> 0]

Num(v) == [n |-> v, d |-> 1]

IsNaN(x) == x.d = 0 /\ x.n = 0

Abs(v) == IF v < 0 THEN -v ELSE v

RECURSIVE GCD(_, _)
GCD(a, b) == IF b = 0 THEN a ELSE GCD(b, a % b)

\* The rational n/d (d # 0) in lowest terms with a positive denominator.
Frac(n, d) ==
    LET g == GCD(Abs(n), Abs(d))
        s == IF d < 0 THEN -1 ELSE 1
    IN  [n |-> (s * n) \div g, d |-> (s * d) \div g]

\* x > k and x < k for a number x and a finite k, as floats compare:
\* every comparison with NaN is false.
Gt(x, k) == IF x.d = 0 THEN x.n > 0 ELSE x.n * k.d > k.n * x.d

Lt(x, k) == IF x.d = 0 THEN x.n < 0 ELSE x.n * k.d < k.n * x.d

----------------------------------------------------------------------------
(* The catalog *)

series_config ==
    << "UNRATE", "U6RATE", "JTSJOL", "CPIAUCSL", "CPILFESL", "T10YIE",
       "INDPRO", "RSAFS", "HOUST", "DGS10", "T10Y2Y", "VIXCLS" >>

Catalogo == {series_config[i] : i \in 1..Len(series_config)}

\* The series FRED publishes daily; the others are monthly.
Diarias == {"T10YIE", "DGS10", "T10Y2Y", "VIXCLS"}

fecha_opciones == << "2010-01-01", "2015-01-01", "2020-01-01", "2022-01-01" >>

TTL == 3600

Periodos == 12

MinObsYoY == 12

----------------------------------------------------------------------------
(* pandas: Series and DataFrame *)

\* A Series is a function from its dates (integers) to numbers.  A DataFrame
\* is its column names in order, its index (the dates, ascending) and, per
\* column, the numbers at the positions 1..Len(index).

RECURSIVE SortSet(_)
SortSet(S) ==
    IF S = {} THEN << >>
    ELSE LET m == CHOOSE x \in S : \A y \in S : x <= y
         IN  << m >> \o SortSet(S \ {m})

SeqSet(q) == {q[i] : i \in 1..Len(q)}

\* pd.DataFrame(dic) for a dict of Series: one column per key, in insertion
\* order; the index is the sorted union of the Series' dates and a column is
\* NaN at the dates its Series has no observation for.
DataFrame(dic) ==
    LET fechas == UNION {DOMAIN dic.ser[c] : c \in SeqSet(dic.keys)}
        index  == SortSet(fechas)
    IN  [columns |-> dic.keys,
         index   |-> index,
         val     |-> [c \in SeqSet(dic.keys) |->
                        [i \in 1..Len(index) |->
                            IF index[i] \in DOMAIN dic.ser[c]
                            THEN dic.ser[c][index[i]] ELSE NaN]]]

\* df.empty: an axis of length 0.
Empty(t) == Len(t.columns) = 0 \/ Len(t.index) = 0

\* s.dropna(): the non-missing numbers of a column, in order.
RECURSIVE DropnaUpTo(_, _)
DropnaUpTo(col, i) ==
    IF i = 0 THEN << >>
    ELSE IF IsNaN(col[i]) THEN DropnaUpTo(col, i - 1)
         ELSE Append(DropnaUpTo(col, i - 1), col[i])

Dropna(col) == DropnaUpTo(col, Len(col))

\* The column as pct_change sees it: with fill_method 'pad' a missing value
\* takes the last value before it.
RECURSIVE PadAt(_, _)
PadAt(col, i) ==
    IF i = 0 THEN NaN
    ELSE IF IsNaN(col[i]) THEN PadAt(col, i - 1) ELSE col[i]

\* (a / b - 1) * 100 in float arithmetic, for finite or missing a and b.
PctCell(a, b) ==
    IF IsNaN(a) \/ IsNaN(b) THEN NaN
    ELSE IF b.n = 0
         THEN (IF a.n = 0 THEN NaN
               ELSE [n |-> IF a.n > 0 THEN 1 ELSE -1, d |-> 0])
         ELSE Frac(100 * (a.n * b.d - b.n * a.d), b.n * a.d)

\* col.pct_change(periods) * 100: each position against the one `periods`
\* positions before it in the column.
PctChange(col, periods, pad) ==
    LET data == IF pad THEN [i \in 1..Len(col) |-> PadAt(col, i)] ELSE col
    IN  [i \in 1..Len(col) |->
            IF i <= periods THEN NaN ELSE PctCell(data[i], data[i - periods])]

----------------------------------------------------------------------------
(* The provider: what _fred.get_series answers *)

\* A series answers by class: "raise" (the call raises), or a Series of
\* NObs(clase) observations: "vacia" none, "corta" a few, "larga" more than
\* a year ("datos" stands for any other Series).
NCorta == 2

NLarga == 13

NObs(clase) ==
    CASE clase = "vacia" -> 0
      [] clase = "corta" -> NCorta
      [] clase = "larga" -> NLarga

\* The k-th observation of a daily series is at date k, of a monthly one at
\* date 2k; its value is k.
Respuesta(s, clase) ==
    LET fechas == IF s \in Diarias
                  THEN 1..NObs(clase)
                  ELSE {2 * k : k \in 1..NObs(clase)}
    IN  [f \in fechas |-> Num(IF s \in Diarias THEN f ELSE f \div 2)]

----------------------------------------------------------------------------
(* cargar_datos_fred *)

Vacio == [keys |-> << >>, ser |-> << >>]

Acc0 == [datos |-> Vacio, llamadas |-> << >>, avisos |-> << >>]

\* The iteration that also treats a Series without observations as a failure.
PasoGuardaSoloConDatos(acc, s, r) ==
    IF r.raise \/ DOMAIN r.serie = {}
    THEN [acc EXCEPT !.llamadas = Append(@, s), !.avisos = Append(@, s)]
    ELSE [acc EXCEPT !.llamadas = Append(@, s),
                     !.datos = [keys |-> Append(@.keys, s),
                                ser  |-> (s :> r.serie) @@ @.ser]]

\* One iteration of the loop for series s, whose get_series call answers r
\* (it raises, or returns r.serie): the call is made; a Series is stored in
\* datos, an exception is caught and shown as a sidebar warning.
Paso(acc, s, r) ==
    IF r.raise
    THEN [acc EXCEPT !.llamadas = Append(@, s), !.avisos = Append(@, s)]
    ELSE [acc EXCEPT !.llamadas = Append(@, s),
                     !.datos = [keys |-> Append(@.keys, s),
                                ser  |-> (s :> r.serie) @@ @.ser]]

\* The loop with the try around it instead of inside it: it ends at the
\* first call that raises.
RECURSIVE BucleTryFuera(_, _, _)
BucleTryFuera(i, resp, acc) ==
    IF i > Len(series_config) THEN acc
    ELSE LET s == series_config[i]
         IN  IF resp[s].raise THEN Paso(acc, s, resp[s])
             ELSE BucleTryFuera(i + 1, resp, Paso(acc, s, resp[s]))

\* for i, (series_id, nombre) in enumerate(series_config.items()), from the
\* i-th entry on; resp gives the answer of get_series for each series.
RECURSIVE Bucle(_, _, _)
Bucle(i, resp, acc) ==
    IF i > Len(series_config) THEN acc
    ELSE LET s == series_config[i]
         IN  Bucle(i + 1, resp, Paso(acc, s, resp[s]))

\* The body of cargar_datos_fred under the answers resp: the table it
\* returns, the get_series calls it made and the warnings it showed.
cargar_datos_fred(resp) ==
    LET acc == Bucle(1, resp, Acc0)
    IN  [df |-> DataFrame(acc.datos),
         datos |-> acc.datos,
         llamadas |-> acc.llamadas,
         avisos |-> acc.avisos]

\* The answers of a provider whose series s answers with class esc[s].
Respuestas(esc) ==
    [s \in Catalogo |->
        IF esc[s] = "raise" THEN [raise |-> TRUE, serie |-> << >>]
        ELSE [raise |-> FALSE, serie |-> Respuesta(s, esc[s])]]

----------------------------------------------------------------------------
(* Derived columns and key indicators *)

\* The condition with >= in place of >.
TieneYoYDesdeDoce(t, c) == Len(Dropna(t.val[c])) >= MinObsYoY

\* if len(df[col].dropna()) > 12
TieneYoY(t, c) == Len(Dropna(t.val[c])) > MinObsYoY

\* The columns added to df_metrics: for each key c the column c_YoY.
Derivar(t, pad) ==
    [c \in {x \in SeqSet(t.columns) : TieneYoY(t, x)} |->
        PctChange(t.val[c], Periodos, pad)]

VixAlto == 20

VixCalma == 15

InflAlta == 3

InflBaja == 2

CurvaNormal == [n |-> 1, d |-> 2]

\* The VIX label with >= and <= in place of > and <.
DeltaVixInclusivo(vix) ==
    IF ~Lt(vix, Num(VixAlto)) /\ ~IsNaN(vix) THEN "Alto Miedo"
    ELSE IF ~Gt(vix, Num(VixCalma)) /\ ~IsNaN(vix) THEN "Calma"
    ELSE "Neutral"

\* "Alto Miedo" if vix > 20 else "Calma" if vix < 15 else "Neutral"
DeltaVix(vix) ==
    IF Gt(vix, Num(VixAlto)) THEN "Alto Miedo"
    ELSE IF Lt(vix, Num(VixCalma)) THEN "Calma"
    ELSE "Neutral"

\* "Alta" if inflacion > 3.0 else "Baja" if inflacion < 2.0 else "En target"
DeltaInflacion(x) ==
    IF Gt(x, Num(InflAlta)) THEN "Alta"
    ELSE IF Lt(x, Num(InflBaja)) THEN "Baja"
    ELSE "En target"

\* "Invertida" if curva < 0 else "Normal" if curva > 0.5 else "Plana"
DeltaCurva(x) ==
    IF Lt(x, Num(0)) THEN "Invertida"
    ELSE IF Gt(x, CurvaNormal) THEN "Normal"
    ELSE "Plana"

\* s.iloc[-1] of a non-empty sequence.
Ultimo(q) == q[Len(q)]

----------------------------------------------------------------------------
(* The script run *)

SinMetrica == [visto |-> FALSE, valor |-> NaN, delta |-> "", yoy |-> NaN]

SinMetricas ==
    [unrate |-> SinMetrica, inflacion |-> SinMetrica,
     curva |-> SinMetrica, vix |-> SinMetrica]

TablaVacia == DataFrame(Vacio)

\* The start dates the sidebar offers in the model.
Fechas == {fecha_opciones[1], fecha_opciones[2]}

CacheVacio == [f \in Fechas |-> [hay |-> FALSE, expira |-> 0, df |-> TablaVacia]]

SinCiclo == [f \in Fechas |-> [hay |-> FALSE, fin |-> 0, df |-> TablaVacia]]

SinLlamada ==
    [hecha |-> FALSE, fresca |-> FALSE, cuando |-> 0,
     previo |-> [hay |-> FALSE, fin |-> 0, df |-> TablaVacia]]

SinEscenario == [s \in Catalogo |-> "raise"]

Terminal == {"sin_clave", "sin_datos", "error_app", "listo"}

\* The sidebar without the check of the key.
SidebarSinComprobar ==
    /\ pc = "inicio"
    /\ \E f \in Fechas : fecha_inicio' = f
    /\ pc' = "carga"
    /\ UNCHANGED <<secrets_key, fill_pad, now, cache, datos, df, df_metrics,
                   llamadas, avisos, metricas, escenario, ciclos, llamada>>

\* Lines 24-48: the sidebar.  Without the key: st.error and st.stop().
\* With it: the start date is the one selected.
Sidebar ==
    /\ pc = "inicio"
    /\ IF secrets_key
       THEN /\ \E f \in Fechas : fecha_inicio' = f
            /\ pc' = "carga"
       ELSE /\ pc' = "sin_clave"
            /\ UNCHANGED fecha_inicio
    /\ UNCHANGED <<secrets_key, fill_pad, now, cache, datos, df, df_metrics,
                   llamadas, avisos, metricas, escenario, ciclos, llamada>>

\* A cache whose entries never expire.
EntradaSinTTL(f, t) == cache[f].hay

\* @st.cache_data(ttl=3600): the entry stored for start_date can be served
\* at time t.  At exactly the TTL the cache library's version decides.
EntradaViva(f, t) == cache[f].hay /\ t < cache[f].expira

EntradaEnLimite(f, t) == cache[f].hay /\ t = cache[f].expira

\* Line 99 served from the cache: the stored table, no call of the body.
CargarDeCache ==
    /\ pc = "carga"
    /\ EntradaViva(fecha_inicio, now) \/ EntradaEnLimite(fecha_inicio, now)
    /\ df' = cache[fecha_inicio].df
    /\ llamada' = [hecha |-> TRUE, fresca |-> FALSE, cuando |-> now,
                    previo |-> ciclos[fecha_inicio]]
    /\ pc' = "vacio"
    /\ UNCHANGED <<secrets_key, fill_pad, now, cache, fecha_inicio, datos,
                   df_metrics, llamadas, avisos, metricas, escenario, ciclos>>

\* Line 99 with no entry to serve: the body runs against a provider that
\* answers as esc says, and its result is stored for the TTL.
CargarFresco(Escenarios) ==
    /\ pc = "carga"
    /\ ~EntradaViva(fecha_inicio, now)
    /\ \E esc \in Escenarios :
         LET r == cargar_datos_fred(Respuestas(esc))
         IN  /\ datos' = r.datos
             /\ df' = r.df
             /\ llamadas' = r.llamadas
             /\ avisos' = r.avisos
             /\ escenario' = esc
             /\ cache' = [cache EXCEPT ![fecha_inicio] =
                            [hay |-> TRUE, expira |-> now + TTL, df |-> r.df]]
             /\ ciclos' = [ciclos EXCEPT ![fecha_inicio] =
                            [hay |-> TRUE, fin |-> now, df |-> r.df]]
    /\ llamada' = [hecha |-> TRUE, fresca |-> TRUE, cuando |-> now,
                    previo |-> ciclos[fecha_inicio]]
    /\ pc' = "vacio"
    /\ UNCHANGED <<secrets_key, fill_pad, now, fecha_inicio, df_metrics, metricas>>

\* The script without the check of the empty table.
ComprobarVacioSinStop ==
    /\ pc = "vacio"
    /\ pc' = "derivar"
    /\ UNCHANGED <<secrets_key, fill_pad, now, cache, fecha_inicio, datos, df,
                   df_metrics, llamadas, avisos, metricas, escenario, ciclos,
                   llamada>>

\* Lines 101-103: an empty table ends the run with the "no data" error.
ComprobarVacio ==
    /\ pc = "vacio"
    /\ pc' = IF Empty(df) THEN "sin_datos" ELSE "derivar"
    /\ UNCHANGED <<secrets_key, fill_pad, now, cache, fecha_inicio, datos, df,
                   df_metrics, llamadas, avisos, metricas, escenario, ciclos,
                   llamada>>

\* Lines 105-111: the YoY columns, then the success line, which reads
\* df.index[0] (an IndexError on an index without rows).
CalcularYoY ==
    /\ pc = "derivar"
    /\ df_metrics' = Derivar(df, fill_pad)
    /\ pc' = IF Len(df.index) = 0 THEN "error_app" ELSE "col1"
    /\ UNCHANGED <<secrets_key, fill_pad, now, cache, fecha_inicio, datos, df,
                   llamadas, avisos, metricas, escenario, ciclos, llamada>>

\* The delta text of the metric shown in a column.
Delta(campo, x) ==
    CASE campo = "inflacion" -> DeltaInflacion(x)
      [] campo = "curva" -> DeltaCurva(x)
      [] campo = "vix" -> DeltaVix(x)

\* The metric of a column read with .dropna().iloc[-1]: an IndexError when
\* no value is left, which the except of line 348 turns into the
\* application error.
Leer(col, campo, sig) ==
    LET q == Dropna(col)
    IN  IF Len(q) = 0
        THEN /\ pc' = "error_app"
             /\ UNCHANGED metricas
        ELSE /\ pc' = sig
             /\ metricas' = [metricas EXCEPT ![campo] =
                    [visto |-> TRUE, valor |-> Ultimo(q),
                     delta |-> Delta(campo, Ultimo(q)), yoy |-> NaN]]

\* Lines 124-131: unemployment rate, with the last row of UNRATE_YoY as delta.
DeltaUnrate(x) == IF "UNRATE" \in DOMAIN df_metrics THEN "yoy" ELSE ""

Col1 ==
    /\ pc = "col1"
    /\ IF "UNRATE" \in SeqSet(df.columns)
       THEN LET q == Dropna(df.val["UNRATE"])
            IN  IF Len(q) = 0
                THEN /\ pc' = "error_app"
                     /\ UNCHANGED metricas
                ELSE /\ pc' = "col2"
                     /\ metricas' = [metricas EXCEPT !.unrate =
                            [visto |-> TRUE, valor |-> Ultimo(q),
                             delta |-> DeltaUnrate(Ultimo(q)),
                             yoy |-> IF "UNRATE" \in DOMAIN df_metrics
                                     THEN Ultimo(df_metrics["UNRATE"])
                                     ELSE NaN]]
       ELSE /\ pc' = "col2"
            /\ UNCHANGED metricas
    /\ UNCHANGED <<secrets_key, fill_pad, now, cache, fecha_inicio, datos, df,
                   df_metrics, llamadas, avisos, escenario, ciclos, llamada>>

\* Lines 134-141: core inflation, read from CPILFESL_YoY.
Col2 ==
    /\ pc = "col2"
    /\ IF "CPILFESL" \in DOMAIN df_metrics
       THEN Leer(df_metrics["CPILFESL"], "inflacion", "col3")
       ELSE /\ pc' = "col3"
            /\ UNCHANGED metricas
    /\ UNCHANGED <<secrets_key, fill_pad, now, cache, fecha_inicio, datos, df,
                   df_metrics, llamadas, avisos, escenario, ciclos, llamada>>

\* Lines 144-151: the 10y-2y curve.
Col3 ==
    /\ pc = "col3"
    /\ IF "T10Y2Y" \in SeqSet(df.columns)
       THEN Leer(df.val["T10Y2Y"], "curva", "col4")
       ELSE /\ pc' = "col4"
            /\ UNCHANGED metricas
    /\ UNCHANGED <<secrets_key, fill_pad, now, cache, fecha_inicio, datos, df,
                   df_metrics, llamadas, avisos, escenario, ciclos, llamada>>

\* Lines 154-161: the VIX.
Col4 ==
    /\ pc = "col4"
    /\ IF "VIXCLS" \in SeqSet(df.columns)
       THEN Leer(df.val["VIXCLS"], "vix", "tabs")
       ELSE /\ pc' = "tabs"
            /\ UNCHANGED metricas
    /\ UNCHANGED <<secrets_key, fill_pad, now, cache, fecha_inicio, datos, df,
                   df_metrics, llamadas, avisos, escenario, ciclos, llamada>>

\* Lines 163-346: the charts, the analysis and the data tabs; every read of
\* a column there is guarded by len(...) > 0 and the table has rows.
Tabs ==
    /\ pc = "tabs"
    /\ pc' = "listo"
    /\ UNCHANGED <<secrets_key, fill_pad, now, cache, fecha_inicio, datos, df,
                   df_metrics, llamadas, avisos, metricas, escenario, ciclos,
                   llamada>>

----------------------------------------------------------------------------
(* The process: reruns of the script and the passing of time *)

MaxTicks == 3

Tick == TTL \div 2

\* Time passes between two runs of the script.
Reloj ==
    /\ pc \in Terminal
    /\ now + Tick <= MaxTicks * Tick
    /\ now' = now + Tick
    /\ UNCHANGED <<secrets_key, fill_pad, pc, cache, fecha_inicio, datos, df,
                   df_metrics, llamadas, avisos, metricas, escenario, ciclos,
                   llamada>>

\* Streamlit runs the script again from the top: the script's variables
\* start over, the widget state and the cache stay.
Rerun ==
    /\ pc \in Terminal
    /\ pc' = "inicio"
    /\ datos' = Vacio
    /\ df' = TablaVacia
    /\ df_metrics' = << >>
    /\ llamadas' = << >>
    /\ avisos' = << >>
    /\ metricas' = SinMetricas
    /\ escenario' = SinEscenario
    /\ llamada' = SinLlamada
    /\ UNCHANGED <<secrets_key, fill_pad, now, cache, fecha_inicio, ciclos>>

\* The provider of the process: it is down (every call raises), or every
\* series answers with data except that UNRATE may raise or come empty.
EscenariosProceso ==
    {[s \in Catalogo |-> "raise"]} \cup
    {[s \in Catalogo |-> IF s = "UNRATE" THEN a ELSE "larga"] :
        a \in {"raise", "vacia", "larga"}}

Init ==
    /\ secrets_key \in BOOLEAN
    /\ fill_pad \in BOOLEAN
    /\ pc = "inicio"
    /\ now = 0
    /\ cache = CacheVacio
    /\ fecha_inicio = fecha_opciones[1]
    /\ datos = Vacio
    /\ df = TablaVacia
    /\ df_metrics = << >>
    /\ llamadas = << >>
    /\ avisos = << >>
    /\ metricas = SinMetricas
    /\ escenario = SinEscenario
    /\ ciclos = SinCiclo
    /\ llamada = SinLlamada

Next ==
    \/ Sidebar
    \/ CargarDeCache
    \/ CargarFresco(EscenariosProceso)
    \/ ComprobarVacio
    \/ CalcularYoY
    \/ Col1
    \/ Col2
    \/ Col3
    \/ Col4
    \/ Tabs
    \/ Reloj
    \/ Rerun

Spec == Init /\ [][Next]_vars

----------------------------------------------------------------------------
(* One load against every provider: cargar_datos_fred as a function *)

\* Any set of series raises, at most one of the others answers without
\* observations and the rest answer with a few.
EscenariosCarga ==
    {[s \in Catalogo |->
        IF s \in F THEN "raise" ELSE IF s \in E THEN "vacia" ELSE "corta"] :
        F \in SUBSET Catalogo,
        E \in {{}} \cup {{s} : s \in Catalogo}}

InitCarga ==
    /\ secrets_key = TRUE
    /\ fill_pad = TRUE
    /\ pc = "carga"
    /\ now = 0
    /\ cache = CacheVacio
    /\ fecha_inicio = fecha_opciones[1]
    /\ datos = Vacio
    /\ df = TablaVacia
    /\ df_metrics = << >>
    /\ llamadas = << >>
    /\ avisos = << >>
    /\ metricas = SinMetricas
    /\ escenario = SinEscenario
    /\ ciclos = SinCiclo
    /\ llamada = SinLlamada

NextCarga ==
    \/ CargarFresco(EscenariosCarga)
    \/ ComprobarVacio

SpecCarga == InitCarga /\ [][NextCarga]_vars

----------------------------------------------------------------------------
(* The panel on given tables: the derivation and the metrics as functions *)

MaxObs == 14

\* A monthly series of n observations: b the first year, v after it, and
\* observation h (if any) missing.
SerieMensual(n, h, b, v) ==
    [f \in {2 * k : k \in 1..n} |->
        IF f = 2 * h THEN NaN
        ELSE IF f <= 2 * Periodos THEN Num(b) ELSE Num(v)]

\* A daily series of three observations of value w.
SerieDiaria(w) == [f \in 1..3 |-> Num(w)]

Niveles ==
    { <<200, 204>>, <<200, 205>>, <<200, 206>>, <<200, 207>>,
      <<0, 5>>, <<0, -5>>, <<0, 0>> }

ValoresVix == {14, 15, 16, 19, 20, 21}

DatosPanel ==
    LET cpi == {SerieMensual(n, h, x[1], x[2]) :
                    n \in 0..MaxObs, h \in {0, 1, 7, MaxObs - 1}, x \in Niveles}
    IN  {[keys |-> << "CPILFESL" >>, ser |-> ("CPILFESL" :> c)] : c \in cpi}
        \cup
        {[keys |-> << "CPILFESL", "VIXCLS" >>,
          ser  |-> ("CPILFESL" :> c) @@ ("VIXCLS" :> SerieDiaria(w))] :
            c \in cpi, w \in ValoresVix}

InitPanel ==
    /\ secrets_key = TRUE
    /\ fill_pad \in BOOLEAN
    /\ pc = "vacio"
    /\ now = 0
    /\ fecha_inicio = fecha_opciones[1]
    /\ datos \in DatosPanel
    /\ df = DataFrame(datos)
    /\ cache = [CacheVacio EXCEPT ![fecha_inicio] =
                    [hay |-> TRUE, expira |-> now + TTL, df |-> df]]
    /\ ciclos = [SinCiclo EXCEPT ![fecha_inicio] =
                    [hay |-> TRUE, fin |-> now, df |-> df]]
    /\ df_metrics = << >>
    /\ llamadas = series_config
    /\ avisos = SelectSeq(series_config, LAMBDA s : s \notin SeqSet(datos.keys))
    /\ metricas = SinMetricas
    /\ escenario = [s \in Catalogo |->
                        IF s \in SeqSet(datos.keys) THEN "datos" ELSE "raise"]
    /\ llamada = [SinLlamada EXCEPT !.hecha = TRUE, !.fresca = TRUE]

NextPanel ==
    \/ ComprobarVacio
    \/ CalcularYoY
    \/ Col1
    \/ Col2
    \/ Col3
    \/ Col4
    \/ Tabs

SpecPanel == InitPanel /\ [][NextPanel]_vars

----------------------------------------------------------------------------
(* Properties *)

Fallan == {s \in Catalogo : escenario[s] = "raise"}

\* The number of non-missing observations of a Series.
Validas(serie) == Cardinality({f \in DOMAIN serie : ~IsNaN(serie[f])})

\* C1: whatever set of series raises (the whole catalog included), the load
\* returns: get_series was called for every catalog entry in order, the
\* table has exactly the series that did not raise and exactly one warning
\* was shown per series that raised.
C1_FallosAislados ==
    (llamada.hecha /\ llamada.fresca) =>
        /\ pc \in {"vacio", "derivar", "sin_datos"}
        /\ llamadas = series_config
        /\ SeqSet(df.columns) = Catalogo \ Fallan
        /\ avisos = SelectSeq(series_config, LAMBDA s : s \in Fallan)

C1_Testigo ==
    /\ llamada.fresca
    /\ escenario["UNRATE"] = "raise"
    /\ escenario["T10Y2Y"] = "raise"
    /\ escenario["VIXCLS"] = "corta"
    /\ "VIXCLS" \in SeqSet(df.columns)
    /\ Len(avisos) >= 2

\* C2: a call for a start date whose last load completed less than the TTL
\* before is served that load's table without any get_series call; a call
\* for a start date never loaded (whatever was loaded for other dates), or
\* loaded more than the TTL before, runs a fresh load of the whole catalog.
C2_CacheTTL ==
    llamada.hecha =>
        LET p == llamada.previo
        IN  /\ (p.hay /\ llamada.cuando - p.fin < TTL) =>
                    (~llamada.fresca /\ df = p.df /\ llamadas = << >>)
            /\ (~p.hay \/ llamada.cuando - p.fin > TTL) =>
                    (llamada.fresca /\ llamadas = series_config)

C2_Testigo ==
    /\ llamada.hecha
    /\ ~llamada.fresca
    /\ llamada.previo.hay
    /\ llamada.cuando - llamada.previo.fin = Tick
    /\ ~Empty(df)
    /\ \E f \in Fechas : f # fecha_inicio /\ ciclos[f].hay /\ ciclos[f].df # df

\* C3: without the API key the run ends "not configured" and makes no call
\* of cargar_datos_fred or get_series; any load follows a successful check.
C3_SinClaveNoCarga ==
    /\ ~secrets_key =>
          (pc \in {"inicio", "sin_clave"} /\ ~llamada.hecha /\ llamadas = << >>)
    /\ (llamada.hecha \/ llamadas # << >>) => secrets_key

C3_Testigo == pc = "sin_clave" /\ ~secrets_key /\ llamadas = << >>

\* C4: when every series raises the load returns an empty table and the run
\* ends in "no data" before any derivation or metric; an empty table never
\* gets past the check.
C4_SinDatos ==
    /\ (llamada.hecha /\ llamada.fresca /\ Fallan = Catalogo) =>
          (Empty(df) /\ pc \in {"vacio", "sin_datos"})
    /\ (llamada.hecha /\ Empty(df)) =>
          (/\ pc \in {"vacio", "sin_datos"}
           /\ df_metrics = << >>
           /\ metricas = SinMetricas)

C4_Testigo ==
    /\ pc = "sin_datos"
    /\ llamada.fresca
    /\ Fallan = Catalogo
    /\ Len(avisos) = Len(series_config)

\* C5 as claimed: the table never holds a series without valid
\* observations; a series that answers without observations is left out and
\* recorded like one that raised.
C5_Original ==
    (llamada.hecha /\ llamada.fresca) =>
        /\ \A c \in SeqSet(df.columns) :
              \E i \in 1..Len(df.index) : ~IsNaN(df.val[c][i])
        /\ \A s \in Catalogo :
              escenario[s] = "vacia" =>
                  (s \notin SeqSet(df.columns) /\ s \in SeqSet(avisos))

\* C5 as the code has it: a series that answers without observations stays
\* in the table as a column without any valid value and no warning is
\* shown for it.
C5_VaciasSeConservan ==
    (llamada.hecha /\ llamada.fresca) =>
        \A s \in Catalogo :
            escenario[s] = "vacia" =>
                /\ s \in SeqSet(df.columns)
                /\ \A i \in 1..Len(df.index) : IsNaN(df.val[s][i])
                /\ s \notin SeqSet(avisos)

C5_Testigo ==
    /\ llamada.fresca
    /\ escenario["UNRATE"] = "vacia"
    /\ escenario["VIXCLS"] = "corta"
    /\ "UNRATE" \in SeqSet(df.columns)
    /\ ~Empty(df)

DespuesDeDerivar == {"col1", "col2", "col3", "col4", "tabs", "listo", "error_app"}

\* The observations of a Series in date order.
Propias(serie) ==
    LET idx == SortSet(DOMAIN serie)
    IN  [i \in 1..Len(idx) |-> serie[idx[i]]]

FilaDe(t, fecha) == CHOOSE i \in 1..Len(t.index) : t.index[i] = fecha

\* The YoY value of the i-th observation of a Series against its own
\* observation 12 before it.
YoYPropio(own, i) ==
    IF i > 12 /\ ~IsNaN(own[i]) /\ ~IsNaN(own[i - 12])
    THEN Frac(100 * (own[i].n - own[i - 12].n), own[i - 12].n)
    ELSE NaN

\* C6 as claimed, for the series it is plainest for: in a table of several
\* series, every series S with more than 12 observations, none of them
\* missing, has in S_YoY, at its i-th observation, the change against its
\* own observation 12 before it, and no value at its first 12 observations
\* (divisions by zero aside).
C6_Original ==
    pc \in DespuesDeDerivar =>
        \A s \in SeqSet(datos.keys) :
            LET idx == SortSet(DOMAIN datos.ser[s])
                own == Propias(datos.ser[s])
            IN  (Len(own) > 12 /\ Validas(datos.ser[s]) = Len(own)) =>
                    /\ s \in DOMAIN df_metrics
                    /\ \A i \in 1..Len(own) :
                          (i > 12 /\ own[i - 12] = Num(0)) \/
                          df_metrics[s][FilaDe(df, idx[i])] = YoYPropio(own, i)

\* C7: the derived table has a YoY column exactly for the series of the
\* table with more than 12 non-missing observations.
C7_UmbralYoY ==
    pc \in DespuesDeDerivar =>
        /\ DOMAIN df_metrics =
              {s \in SeqSet(datos.keys) : Validas(datos.ser[s]) >= 13}
        /\ DOMAIN df_metrics \subseteq SeqSet(df.columns)

C7_Testigo ==
    /\ pc = "col1"
    /\ Validas(datos.ser["CPILFESL"]) = 13
    /\ Cardinality(DOMAIN datos.ser["CPILFESL"]) = 14
    /\ "CPILFESL" \in DOMAIN df_metrics
    /\ "VIXCLS" \in SeqSet(df.columns)
    /\ "VIXCLS" \notin DOMAIN df_metrics

\* C8 as claimed: where the value 12 positions before is 0 the YoY entry is
\* absent.
C8_Original ==
    pc \in DespuesDeDerivar =>
        \A s \in DOMAIN df_metrics :
            \A i \in 1..Len(df.index) :
                (i > 12 /\ df.val[s][i - 12] = Num(0) /\ ~IsNaN(df.val[s][i]))
                    => IsNaN(df_metrics[s][i])

Mayor(x, k) == IF x.d = 0 THEN x.n = 1 ELSE x.n > k * x.d

Menor(x, k) == IF x.d = 0 THEN x.n = -1 ELSE x.n < k * x.d

\* C9 as claimed: the thresholds are inclusive, a value equal to one is
\* labelled Good (Calma, Baja) or Bad (Alto Miedo, Alta).
C9_Original ==
    /\ metricas.vix.visto =>
          LET x == metricas.vix.valor
          IN  metricas.vix.delta =
                  (IF ~Menor(x, 20) THEN "Alto Miedo"
                   ELSE IF ~Mayor(x, 15) THEN "Calma" ELSE "Neutral")
    /\ metricas.inflacion.visto =>
          LET x == metricas.inflacion.valor
          IN  metricas.inflacion.delta =
                  (IF ~Menor(x, 3) THEN "Alta"
                   ELSE IF ~Mayor(x, 2) THEN "Baja" ELSE "En target")

\* C9 as the code has it: the thresholds are exclusive: a value below the
\* good threshold is Good, one above the bad threshold is Bad, and every
\* other value, the thresholds themselves included, is Neutral.
C9_UmbralesEstrictos ==
    /\ metricas.vix.visto =>
          LET x == metricas.vix.valor
          IN  metricas.vix.delta =
                  (IF Mayor(x, 20) THEN "Alto Miedo"
                   ELSE IF Menor(x, 15) THEN "Calma" ELSE "Neutral")
    /\ metricas.inflacion.visto =>
          LET x == metricas.inflacion.valor
          IN  metricas.inflacion.delta =
                  (IF Mayor(x, 3) THEN "Alta"
                   ELSE IF Menor(x, 2) THEN "Baja" ELSE "En target")

C9_Testigo ==
    /\ metricas.vix.visto
    /\ metricas.vix.valor = Num(15)
    /\ metricas.vix.delta = "Neutral"
    /\ metricas.inflacion.visto
    /\ metricas.inflacion.valor = Num(3)
    /\ metricas.inflacion.delta = "En target"

\* C10 as claimed: with the credential configured a run never ends in the
\* generic application error.
C10_Original == pc # "error_app"

====
